---- MODULE Spec2Model ----
(***************************************************************************)
(* The bond-catalog updater of update_data_script.py: merge of the freshly *)
(* downloaded table with the persisted catalog, planning of the records    *)
(* that still need a bond id or an issue price, enrichment of those        *)
(* records under the 429 backoff loop, and the final write of the catalog. *)
(***************************************************************************)
EXTENDS Integers, Sequences, FiniteSets, TLC

\* ------------------------------------------------------------ bounds
\* Longest incoming table (rows) of a run and longest persisted catalog drawn.
MaxLen == 2
\* Number of runs of main that follow each other.
MaxRuns == 2
\* Most 429 responses the calls of step3_get_issue_price receive in a run of
\* main.
RunMax429 == 1
\* Most 429 responses the calls receive in a fetch session.
Max429 == 6
\* Number of calls of step3_get_issue_price in a fetch session.
MaxCalls == 3

\* ------------------------------------------------------------ values
\* A key that is not in the record's dict ('bondid' not in record).
Absent == -2
\* Python's None as the value of a key.
Null == -1

\* The ISIN strings of the tables.
Isins == {"A", "B"}
\* Bond ids of the yield table's links (bondID=(\d+)).
BondIds == {7, 8}
\* Values of the volatile column: in a persisted catalog, in a new table.
OldPrices == {1}
NewPrices == {2}
\* Issue prices are kept in hundredths: 98.75 is 9875.
IssuePrices == {9875, 10000}

Min(a, b) == IF a <= b THEN a ELSE b

\* A record of the table: its ISIN, one volatile column (which a table may
\* lack), and the two static fields, each of which may be absent, null or
\* valid.
Records ==
  [isin : Isins, price : {Absent} \cup OldPrices \cup NewPrices,
   bondid : {Absent, Null} \cup BondIds,
   issueprice : {Absent, Null} \cup IssuePrices]

StaticFields == {"bondid", "issueprice"}
AllFields == {"isin", "price", "bondid", "issueprice"}

\* 'field' in record and record[field] is not None
IsValid(record, field) == record[field] # Absent /\ record[field] # Null

\* ------------------------------------------------------------ merge_data
\* existing_dict = {record[isin_column]: record for record in existing_data}:
\* a later record with the same ISIN replaces an earlier one.
ExistingDict(existing_data) ==
  [isin \in {existing_data[j].isin : j \in DOMAIN existing_data} |->
     existing_data[CHOOSE j \in DOMAIN existing_data :
        /\ existing_data[j].isin = isin
        /\ \A k \in DOMAIN existing_data :
             existing_data[k].isin = isin => k <= j]]

\* Mutant: the existing value only fills a field the new record lacks.
MergeRecordFillsGaps(existing_dict, new_record) ==
  IF new_record.isin \in DOMAIN existing_dict
  THEN [field \in AllFields |->
          IF field \in StaticFields
             /\ IsValid(existing_dict[new_record.isin], field)
             /\ ~IsValid(new_record, field)
          THEN existing_dict[new_record.isin][field]
          ELSE new_record[field]]
  ELSE new_record

\* Mutant: only the bondid of the existing record is kept.
MergeRecordBondidOnly(existing_dict, new_record) ==
  IF new_record.isin \in DOMAIN existing_dict
  THEN [field \in AllFields |->
          IF field = "bondid"
             /\ IsValid(existing_dict[new_record.isin], field)
          THEN existing_dict[new_record.isin][field]
          ELSE new_record[field]]
  ELSE new_record

\* Mutant: a static field the existing record has no value for is set to
\* null in the new record.
MergeRecordNullsMissing(existing_dict, new_record) ==
  IF new_record.isin \in DOMAIN existing_dict
  THEN [field \in AllFields |->
          IF field \in StaticFields
          THEN IF IsValid(existing_dict[new_record.isin], field)
               THEN existing_dict[new_record.isin][field]
               ELSE Null
          ELSE new_record[field]]
  ELSE new_record

\* Mutant: a field the new record lacks is filled from the existing record.
MergeRecordCopiesMissing(existing_dict, new_record) ==
  IF new_record.isin \in DOMAIN existing_dict
  THEN [field \in AllFields |->
          IF \/ field \in StaticFields
                /\ IsValid(existing_dict[new_record.isin], field)
             \/ field # "isin" /\ new_record[field] = Absent
          THEN existing_dict[new_record.isin][field]
          ELSE new_record[field]]
  ELSE new_record

\* The body of merge_data's loop for one new record.
MergeRecord(existing_dict, new_record) ==
  IF new_record.isin \in DOMAIN existing_dict
  THEN [field \in AllFields |->
          IF field \in StaticFields
             /\ IsValid(existing_dict[new_record.isin], field)
          THEN existing_dict[new_record.isin][field]
          ELSE new_record[field]]
  ELSE new_record

\* Mutant: the records of the previous catalog whose ISIN is not in the new
\* table are kept at the end of the output.
merge_dataKeepsOld(existing_data, new_data) ==
  IF existing_data = <<>>
  THEN new_data
  ELSE [i \in DOMAIN new_data |->
          MergeRecord(ExistingDict(existing_data), new_data[i])]
       \o SelectSeq(existing_data,
                    LAMBDA r : \A i \in DOMAIN new_data :
                                 new_data[i].isin # r.isin)

\* merge_data(existing_data, new_data, isin_column); None and [] are both
\* the empty sequence (the code only tests `not existing_data`).
merge_data(existing_data, new_data) ==
  IF existing_data = <<>>
  THEN new_data
  ELSE [i \in DOMAIN new_data |->
          MergeRecord(ExistingDict(existing_data), new_data[i])]

\* ------------------------------------------------------------ planning
\* Mutant: only a missing issue price selects a record.
NeedsEnrichmentPriceOnly(record) ==
  record.issueprice = Absent \/ record.issueprice = Null

\* The filter of main, lines 422-423 and 444-445.
NeedsEnrichment(record) ==
  \/ record.bondid = Absent \/ record.bondid = Null
  \/ record.issueprice = Absent \/ record.issueprice = Null

\* Mutant: every ISIN of the table is planned.
IsinToProcessAll(data) == {data[i].isin : i \in DOMAIN data}

\* isin_to_process: the set of ISINs of the records that pass the filter.
IsinToProcess(data) ==
  {data[i].isin : i \in {j \in DOMAIN data : NeedsEnrichment(data[j])}}

RECURSIVE SelectIndices(_, _)
SelectIndices(data, i) ==
  IF i > Len(data) THEN <<>>
  ELSE IF NeedsEnrichment(data[i])
       THEN <<i>> \o SelectIndices(data, i + 1)
       ELSE SelectIndices(data, i + 1)

\* records_to_process: the list holds the very dict objects of json_data, so
\* it is kept as the list of their positions in json_data.
RecordsToProcess(data) == SelectIndices(data, 1)

\* ------------------------------------------------------------ write-back
\* record.update(other): every key of other replaces or adds the key in record.
Update(record, other) ==
  [field \in AllFields |->
     IF field = "isin" \/ other[field] # Absent
     THEN other[field]
     ELSE record[field]]

\* enriched_dict = {record[isin_column]: record for record in enriched_subset}
EnrichedDict(data, rtp) ==
  [isin \in {data[rtp[n]].isin : n \in DOMAIN rtp} |->
     data[rtp[CHOOSE n \in DOMAIN rtp :
        /\ data[rtp[n]].isin = isin
        /\ \A m \in DOMAIN rtp : data[rtp[m]].isin = isin => m <= n]]]

\* The loop of main, lines 453-457, over the whole of json_data.
WriteBack(data, rtp) ==
  [i \in DOMAIN data |->
     IF data[i].isin \in DOMAIN EnrichedDict(data, rtp)
     THEN Update(data[i], EnrichedDict(data, rtp)[data[i].isin])
     ELSE data[i]]

\* ------------------------------------------------------------ the price text
Digits == {"0", "1", "2", "3", "4", "5", "6", "7", "8", "9"}

DigitVal(c) ==
  CASE c = "0" -> 0 [] c = "1" -> 1 [] c = "2" -> 2 [] c = "3" -> 3
    [] c = "4" -> 4 [] c = "5" -> 5 [] c = "6" -> 6 [] c = "7" -> 7
    [] c = "8" -> 8 [] c = "9" -> 9

\* str.strip(): leading and trailing blanks removed.
RECURSIVE Strip(_)
Strip(text) ==
  IF text = <<>> THEN text
  ELSE IF Head(text) = " " THEN Strip(Tail(text))
  ELSE IF text[Len(text)] = " " THEN Strip(SubSeq(text, 1, Len(text) - 1))
  ELSE text

\* str.replace(',', '.')
ReplaceComma(text) ==
  [i \in DOMAIN text |-> IF text[i] = "," THEN "." ELSE text[i]]

\* The texts float() accepts, among those built of digits, dots and letters:
\* digits with at most one dot and at least one digit.
IsFloatText(text) ==
  /\ \A i \in DOMAIN text : text[i] \in Digits \cup {"."}
  /\ Cardinality({i \in DOMAIN text : text[i] = "."}) <= 1
  /\ \E i \in DOMAIN text : text[i] \in Digits

RECURSIVE NumberOf(_)
NumberOf(digits) ==
  IF digits = <<>> THEN 0
  ELSE NumberOf(SubSeq(digits, 1, Len(digits) - 1)) * 10
       + DigitVal(digits[Len(digits)])

\* float(text) in hundredths (the texts carry at most two decimals).
FloatOf(text) ==
  LET dot == IF \E i \in DOMAIN text : text[i] = "."
             THEN CHOOSE i \in DOMAIN text : text[i] = "."
             ELSE Len(text) + 1
      frac == SubSeq(text, dot + 1, Len(text))
      d1 == IF Len(frac) >= 1 THEN DigitVal(frac[1]) ELSE 0
      d2 == IF Len(frac) >= 2 THEN DigitVal(frac[2]) ELSE 0
  IN NumberOf(SubSeq(text, 1, dot - 1)) * 100 + d1 * 10 + d2

\* Lines 204-209: float(text.strip().replace(',', '.')), None on ValueError.
ParsePrice(text) ==
  IF IsFloatText(ReplaceComma(Strip(text)))
  THEN FloatOf(ReplaceComma(Strip(text)))
  ELSE Null

\* The texts of the <issueprice> tag the detail document may carry.
PriceTexts ==
  { <<"1", "0", "0">>,
    <<"9", "8", ",", "7", "5">>,
    <<" ", "9", "8", ".", "7", "5", " ">>,
    <<"0">>,
    <<"0", ",", "0", "0">>,
    <<"n", "a">>,
    <<"1", ".", "0", "0", "0", ",", "5">>,
    <<>> }

\* What one requests.get of the detail document can come to: a 429, another
\* HTTP error, a transport error, a document without the tag, or a document
\* with the tag and its text.
Responses ==
  [kind : {"429", "http_error", "transport_error", "no_tag"}, text : {<<>>}]
  \cup [kind : {"tag"}, text : PriceTexts]

\* Mutant: a document without the tag is taken as price 0.
ReturnValueNoTagZero(resp) ==
  IF resp.kind = "tag" THEN ParsePrice(resp.text)
  ELSE IF resp.kind = "no_tag" THEN 0 ELSE Null

\* The value step3_get_issue_price returns on a response that is not a 429.
ReturnValue(resp) ==
  IF resp.kind = "tag" THEN ParsePrice(resp.text) ELSE Null

\* ------------------------------------------------------------ inputs
\* The tables step1_csv_to_json can return: every record of a table has the
\* same columns, so a column is in all records of a table or in none.
TableRecords(hasPrice, hasBondid, hasIssueprice) ==
  {r \in Records : /\ r.price \in (IF hasPrice THEN NewPrices ELSE {Absent})
                   /\ (r.bondid # Absent) = hasBondid
                   /\ (r.issueprice # Absent) = hasIssueprice}

TablesOver(S) == UNION {[1..n -> S] : n \in 1..MaxLen}

\* Tables of a CSV that may lack the volatile column and may carry columns
\* named bondid and issueprice.
AnyTables ==
  UNION {TablesOver(TableRecords(v, b, p)) :
           v \in BOOLEAN, b \in BOOLEAN, p \in BOOLEAN}

\* The tables of run r: the volatile column is fresh in every row of every
\* run (row i of run r carries 10 * r + i), and the CSV carries no bondid
\* column and may carry an issueprice column.
RunRecords(hasIssueprice) ==
  [isin : Isins, bondid : {Absent},
   issueprice : IF hasIssueprice THEN {Null, 9875} ELSE {Absent}]

Stamped(rows, r) ==
  [i \in DOMAIN rows |->
     [isin |-> rows[i].isin, price |-> 10 * r + i,
      bondid |-> rows[i].bondid, issueprice |-> rows[i].issueprice]]

RunTables(r) ==
  {Stamped(rows, r) :
     rows \in UNION {TablesOver(RunRecords(p)) : p \in BOOLEAN}}

\* Persisted catalogs: records written by earlier runs, each static field
\* absent, null or valid.
Catalogs ==
  {<<>>} \cup
  TablesOver({r \in Records : /\ r.price \in OldPrices
                              /\ r.bondid # 8
                              /\ r.issueprice # 10000})

\* The dicts step2_fetch_isin_bondid_mapping can return ({} on any error);
\* two ISINs do not share a bond id.
Mappings ==
  {map \in UNION {[D -> BondIds] : D \in SUBSET Isins} :
     \A a, b \in DOMAIN map : a # b => map[a] # map[b]}

\* ------------------------------------------------------------ state
VARIABLES
  file,               \* docs/output_enriched.json: [state, data]
  pc,                 \* position of the process
  run,                \* number of the run of main
  existing_data,      \* main: the catalog loaded at the start of the run
  incoming,           \* the table step1_csv_to_json returned (history)
  json_data,          \* main: the list of records being built
  merged,             \* json_data as merge_data left it (history)
  isin_to_process,    \* main: the set of ISINs to enrich
  isin_bond_map,      \* main: the ISIN -> bondId dict
  mapCalled,          \* step2_fetch_isin_bondid_mapping was called (history)
  records_to_process, \* main: positions in json_data of the records to enrich
  idx,                \* step3_enrich_with_issue_prices: position in the loop
  bondid_added,       \* step3_enrich_with_issue_prices: counter
  price_found,        \* step3_enrich_with_issue_prices: counter
  price_not_found,    \* step3_enrich_with_issue_prices: counter
  unresolved,         \* records that took the branch of lines 302-306 (history)
  fetchCalls,         \* calls of step3_get_issue_price per record (history)
  bond_id,            \* step3_get_issue_price: its argument
  backoff,            \* step3_get_issue_price: the local backoff
  waits,              \* the waits of the current call, in order (history)
  requests,           \* requests.get calls of the current call (history)
  prior429,           \* 429 responses of the earlier calls of the run (history)
  result,             \* the value the last call returned
  lastResp,           \* the response of the last request (history)
  calls,              \* calls made so far in the fetch session
  writes              \* times the run opened the snapshot for writing (history)

vars ==
  <<file, pc, run, existing_data, incoming, json_data, merged,
    isin_to_process, isin_bond_map, mapCalled, records_to_process, idx, bondid_added,
    price_found, price_not_found, unresolved, fetchCalls, bond_id, backoff, waits,
    requests, prior429, result, lastResp, calls, writes>>

mainVars ==
  <<existing_data, incoming, json_data, merged, isin_to_process, isin_bond_map,
    mapCalled, records_to_process>>
enrichVars == <<idx, bondid_added, price_found, price_not_found, unresolved, fetchCalls>>
fetchVars == <<bond_id, backoff, waits, requests, prior429, result, lastResp>>

NoResp == [kind |-> "none", text |-> <<>>]
EmptyMap == [isin \in {} |-> 0]

\* The state of a process that has just started: no local is set.
FreshProcess ==
  /\ existing_data = <<>>
  /\ incoming = <<>>
  /\ json_data = <<>>
  /\ merged = <<>>
  /\ isin_to_process = {}
  /\ isin_bond_map = EmptyMap
  /\ mapCalled = FALSE
  /\ records_to_process = <<>>
  /\ idx = 0
  /\ bondid_added = 0
  /\ price_found = 0
  /\ price_not_found = 0
  /\ unresolved = 0
  /\ fetchCalls = <<>>
  /\ bond_id = 0
  /\ backoff = 0
  /\ waits = <<>>
  /\ requests = 0
  /\ prior429 = 0
  /\ result = Null
  /\ lastResp = NoResp
  /\ calls = 0
  /\ writes = 0

\* First run: no snapshot file yet.
Init ==
  /\ file = [state |-> "missing", data |-> <<>>]
  /\ pc = "start"
  /\ run = 1
  /\ FreshProcess

\* load_existing_json: None for a missing or corrupt file.
load_existing_json(f) == IF f.state = "ok" THEN f.data ELSE <<>>

\* ------------------------------------------------------------ step3_get_issue_price
\* Line 193.
max_backoff == 600

\* Mutant: the backoff the previous call left is kept (a backoff shared by
\* the calls of a run).
StartBackoffKept(previous) == IF previous = 0 THEN 60 ELSE previous

\* Line 192: the backoff is a local of the call, set to 60 at its start.
StartBackoff(previous) == 60

\* Mutant: the backoff doubles without a cap.
NextBackoffNoCap(b) == b * 2

\* Line 220: backoff = min(backoff * 2, max_backoff)
NextBackoff(b) == Min(b * 2, max_backoff)

\* Mutant: the call gives up at the first 429.
GivesUpAtOnce(n429) == n429 >= 0

\* Lines 195 and 221: `while True` ... `continue`: no count of retries ends
\* the loop.
GivesUp(n429) == FALSE

\* The caller has taken the returned value: the locals of the call are gone,
\* its 429 responses are counted among those of the earlier calls of the run.
CallOver ==
  /\ prior429' = prior429 + Len(waits)
  /\ bond_id' = 0
  /\ backoff' = 0
  /\ waits' = <<>>
  /\ requests' = 0
  /\ result' = Null
  /\ lastResp' = NoResp

\* The call of step3_get_issue_price(b): its locals at entry.
FetchBegin(b) ==
  /\ bond_id' = b
  /\ backoff' = StartBackoff(backoff)
  /\ prior429' = prior429 + Len(waits)
  /\ waits' = <<>>
  /\ requests' = 0
  /\ result' = Null
  /\ lastResp' = NoResp

\* A request answered 429 (lines 212-221): wait backoff seconds, double the
\* backoff, request again.
Fetch429(bound) ==
  /\ pc = "fetch"
  /\ prior429 + Len(waits) < bound
  /\ requests' = requests + 1
  /\ lastResp' = [kind |-> "429", text |-> <<>>]
  /\ IF GivesUp(Len(waits))
     THEN /\ result' = Null
          /\ pc' = "fetch_ret"
          /\ UNCHANGED <<waits, backoff>>
     ELSE /\ waits' = Append(waits, backoff)
          /\ backoff' = NextBackoff(backoff)
          /\ pc' = "fetch"
          /\ UNCHANGED result
  /\ UNCHANGED <<file, run, mainVars, enrichVars, bond_id, prior429, calls, writes>>

\* A request answered by anything else (lines 197-211, 222-227): the call
\* returns.
FetchReturn(responses) ==
  /\ pc = "fetch"
  /\ \E resp \in responses :
       /\ resp.kind # "429"
       /\ lastResp' = resp
       /\ result' = ReturnValue(resp)
  /\ requests' = requests + 1
  /\ pc' = "fetch_ret"
  /\ UNCHANGED <<file, run, mainVars, enrichVars, bond_id, backoff, waits,
                 prior429, calls, writes>>

\* ------------------------------------------------------------ step3_enrich_with_issue_prices
\* Line 296: `if issue_price:` (None and 0.0 are false).
IsTruthy(issue_price) == issue_price # Null /\ issue_price # 0

\* Line 287: `if isin and isin in isin_bond_map`
InMap(isin, map) == isin # "" /\ isin \in DOMAIN map

\* Mutant: an empty mapping does not end the enrichment early.
EarlyReturnNever(data, map) == FALSE

\* Line 252: `if not json_data or not isin_bond_map`
EarlyReturn(data, map) == data = <<>> \/ DOMAIN map = {}

\* The record the loop is at.
Current == json_data[records_to_process[idx]]

InLoop == pc = "enrich" /\ idx <= Len(records_to_process)

\* Mutant: the skip counts the price as found but not the bondid.
EnrichSkipNoBondid ==
  /\ InLoop
  /\ IsValid(Current, "issueprice")
  /\ price_found' = price_found + 1
  /\ idx' = idx + 1
  /\ UNCHANGED <<file, pc, run, mainVars, bondid_added, price_not_found,
                 unresolved, fetchCalls, fetchVars, calls, writes>>

\* Lines 282-285: the record already has a valid issue price.
EnrichSkip ==
  /\ InLoop
  /\ IsValid(Current, "issueprice")
  /\ price_found' = price_found + 1
  /\ bondid_added' = bondid_added + 1
  /\ idx' = idx + 1
  /\ UNCHANGED <<file, pc, run, mainVars, price_not_found, unresolved, fetchCalls,
                 fetchVars, calls, writes>>

\* Mutant: the bond id of the mapping is used for the call but not stored in
\* the record.
EnrichHitNoBondid ==
  /\ InLoop
  /\ ~IsValid(Current, "issueprice")
  /\ InMap(Current.isin, isin_bond_map)
  /\ bondid_added' = bondid_added + 1
  /\ fetchCalls' = [fetchCalls EXCEPT
        ![records_to_process[idx]] = @ + 1]
  /\ FetchBegin(isin_bond_map[Current.isin])
  /\ pc' = "fetch"
  /\ UNCHANGED <<file, run, mainVars, idx, price_found, price_not_found,
                 unresolved, calls, writes>>

\* Lines 287-294: the ISIN is in the mapping; step3_get_issue_price is called.
EnrichHit ==
  /\ InLoop
  /\ ~IsValid(Current, "issueprice")
  /\ InMap(Current.isin, isin_bond_map)
  /\ json_data' = [json_data EXCEPT
        ![records_to_process[idx]].bondid = isin_bond_map[Current.isin]]
  /\ bondid_added' = bondid_added + 1
  /\ fetchCalls' = [fetchCalls EXCEPT
        ![records_to_process[idx]] = @ + 1]
  /\ FetchBegin(isin_bond_map[Current.isin])
  /\ pc' = "fetch"
  /\ UNCHANGED <<file, run, existing_data, incoming, merged, isin_to_process,
                 isin_bond_map, mapCalled, records_to_process, idx,
                 price_found, price_not_found, unresolved, calls, writes>>

\* Lines 296-301: the call has returned.
EnrichAfterFetch ==
  /\ pc = "fetch_ret"
  /\ IF IsTruthy(result)
     THEN /\ json_data' = [json_data EXCEPT
                ![records_to_process[idx]].issueprice = result]
          /\ price_found' = price_found + 1
          /\ UNCHANGED price_not_found
     ELSE /\ json_data' = [json_data EXCEPT
                ![records_to_process[idx]].issueprice = Null]
          /\ price_not_found' = price_not_found + 1
          /\ UNCHANGED price_found
  /\ idx' = idx + 1
  /\ pc' = "enrich"
  /\ CallOver
  /\ UNCHANGED <<file, run, existing_data, incoming, merged, isin_to_process,
                 isin_bond_map, mapCalled, records_to_process, bondid_added,
                 unresolved, fetchCalls, calls, writes>>

\* Lines 302-306: the ISIN is not in the mapping.
EnrichMiss ==
  /\ InLoop
  /\ ~IsValid(Current, "issueprice")
  /\ ~InMap(Current.isin, isin_bond_map)
  /\ json_data' = [json_data EXCEPT
        ![records_to_process[idx]].bondid = Null,
        ![records_to_process[idx]].issueprice = Null]
  /\ unresolved' = unresolved + 1
  /\ idx' = idx + 1
  /\ UNCHANGED <<file, pc, run, existing_data, incoming, merged, isin_to_process,
                 isin_bond_map, mapCalled, records_to_process, bondid_added,
                 price_found, price_not_found, fetchCalls, fetchVars, calls,
                 writes>>

\* The loop is over: step3_enrich_with_issue_prices returns (lines 308-318).
EnrichReturn ==
  /\ pc = "enrich"
  /\ idx > Len(records_to_process)
  /\ pc' = "enriched"
  /\ UNCHANGED <<file, run, mainVars, enrichVars, fetchVars, calls, writes>>

\* main writes the enriched records back into json_data (lines 452-459).
WriteBackStep ==
  /\ pc = "enriched"
  /\ json_data' = WriteBack(json_data, records_to_process)
  /\ pc' = "save"
  /\ UNCHANGED <<file, run, existing_data, incoming, merged, isin_to_process,
                 isin_bond_map, mapCalled, records_to_process, enrichVars,
                 fetchVars, calls, writes>>

\* ------------------------------------------------------------ main
\* The process ends (sys.exit or the end of main): its locals are gone.
ProcessGone ==
  /\ existing_data' = <<>>
  /\ incoming' = <<>>
  /\ json_data' = <<>>
  /\ merged' = <<>>
  /\ isin_to_process' = {}
  /\ isin_bond_map' = EmptyMap
  /\ mapCalled' = FALSE
  /\ records_to_process' = <<>>
  /\ idx' = 0
  /\ bondid_added' = 0
  /\ price_found' = 0
  /\ price_not_found' = 0
  /\ unresolved' = 0
  /\ fetchCalls' = <<>>
  /\ bond_id' = 0
  /\ backoff' = 0
  /\ waits' = <<>>
  /\ requests' = 0
  /\ prior429' = 0
  /\ result' = Null
  /\ lastResp' = NoResp

\* step0_download_stfi_csv fails (lines 27-29, 52-57): sys.exit(1).
Step0Fail ==
  /\ pc = "start"
  /\ pc' = "exit1"
  /\ ProcessGone
  /\ UNCHANGED <<file, run, calls, writes>>

\* The CSV is downloaded and the snapshot is loaded (lines 380-385).
Step0Ok ==
  /\ pc = "start"
  /\ existing_data' = load_existing_json(file)
  /\ pc' = "step1"
  /\ UNCHANGED <<file, run, incoming, json_data, merged, isin_to_process,
                 isin_bond_map, mapCalled, records_to_process, enrichVars,
                 fetchVars, calls, writes>>

\* Mutant: the abort of step 1 leaves an empty snapshot behind.
Step1FailAfterWrite ==
  /\ pc = "step1"
  /\ file' = [state |-> "ok", data |-> <<>>]
  /\ writes' = writes + 1
  /\ pc' = "exit1"
  /\ ProcessGone
  /\ UNCHANGED <<run, calls>>

\* step1_csv_to_json returns None or an empty list (lines 393-395), or no
\* key of the first record contains ISIN (lines 405-407): sys.exit(1).
Step1Fail ==
  /\ pc = "step1"
  /\ pc' = "exit1"
  /\ ProcessGone
  /\ UNCHANGED <<file, run, calls, writes>>

\* Lines 391-424: the table is read, merged with the snapshot, and the set
\* of ISINs to enrich is computed.
Step1Ok(table) ==
  /\ pc = "step1"
  /\ incoming' = table
  /\ json_data' = IF existing_data # <<>>
                  THEN merge_data(existing_data, table)
                  ELSE table
  /\ merged' = json_data'
  /\ isin_to_process' = IsinToProcess(json_data')
  /\ fetchCalls' = [i \in DOMAIN table |-> 0]
  /\ pc' = "step2"
  /\ UNCHANGED <<file, run, existing_data, isin_bond_map, mapCalled,
                 records_to_process, idx, bondid_added, price_found,
                 price_not_found, unresolved, fetchVars, calls, writes>>

\* Lines 441-450 and 252-276, with the mapping `map`: the worklist is built;
\* with no worklist step3_enrich_with_issue_prices is not called (line 461),
\* with an empty mapping it returns at once (line 254), else its loop starts.
StartEnrich(map) ==
  /\ isin_bond_map' = map
  /\ records_to_process' = RecordsToProcess(json_data)
  /\ idx' = 1
  /\ pc' = IF records_to_process' = <<>> THEN "save"
           ELSE IF EarlyReturn(records_to_process', map) THEN "enriched"
           ELSE "enrich"
  /\ UNCHANGED <<file, run, existing_data, incoming, json_data, merged,
                 isin_to_process, bondid_added, price_found, price_not_found, unresolved,
                 fetchCalls, fetchVars, calls, writes>>

\* Lines 426-428: some ISIN needs enrichment, the mapping is fetched.
Step2Fetch ==
  /\ pc = "step2"
  /\ isin_to_process # {}
  /\ mapCalled' = TRUE
  /\ \E map \in Mappings : StartEnrich(map)

\* Lines 429-431: no ISIN needs enrichment, the mapping is {}.
Step2Skip ==
  /\ pc = "step2"
  /\ isin_to_process = {}
  /\ UNCHANGED mapCalled
  /\ StartEnrich(EmptyMap)

\* Lines 469-472: the catalog is written.
Save ==
  /\ pc = "save"
  /\ file' = [state |-> "ok", data |-> json_data]
  /\ pc' = "done"
  /\ writes' = writes + 1
  /\ UNCHANGED <<run, mainVars, enrichVars, fetchVars, calls>>

\* Lines 470 and 479-481: open(..., 'w') or json.dump raises: the file is as
\* it was (open failed) or truncated or partly written, which no longer
\* parses; sys.exit(1).
SaveFail ==
  /\ pc = "save"
  /\ file' \in {file, [state |-> "corrupt", data |-> <<>>]}
  /\ pc' = "exit1"
  /\ writes' = writes + 1
  /\ ProcessGone
  /\ UNCHANGED <<run, calls>>

\* The process has ended; the next run of main starts in a new process.
NextRun ==
  /\ pc \in {"done", "exit1"}
  /\ run < MaxRuns
  /\ run' = run + 1
  /\ pc' = "start"
  /\ writes' = 0
  /\ ProcessGone
  /\ UNCHANGED <<file, calls>>

Step1 == \E table \in RunTables(run) : Step1Ok(table)

RunFetch429 == Fetch429(RunMax429)

\* The responses of a run of main: an HTTP error, and a document with each
\* kind of price text (unparsable, zero, two prices).
RunResponses ==
  {resp \in Responses :
     \/ resp.kind = "http_error"
     \/ resp.text \in {<<"1", "0", "0">>, <<"9", "8", ",", "7", "5">>,
                       <<"0">>, <<"n", "a">>}}

RunFetchReturn == FetchReturn(RunResponses)

Next ==
  \/ Step0Fail
  \/ Step0Ok
  \/ Step1Fail
  \/ Step1
  \/ Step2Fetch
  \/ Step2Skip
  \/ EnrichSkip
  \/ EnrichHit
  \/ RunFetch429
  \/ RunFetchReturn
  \/ EnrichAfterFetch
  \/ EnrichMiss
  \/ EnrichReturn
  \/ WriteBackStep
  \/ Save
  \/ SaveFail
  \/ NextRun

\* Runs of main, one after the other, from a first run without a snapshot.
Spec == Init /\ [][Next]_vars

\* ------------------------------------------------------------ one run
\* A record with a valid issueprice has a valid bondid.
Coupled(data) ==
  \A i \in DOMAIN data :
    IsValid(data[i], "issueprice") => IsValid(data[i], "bondid")

\* The snapshots a run can find in which every record is coupled, and no
\* snapshot at all.
CoupledFiles ==
  {[state |-> "missing", data |-> <<>>]} \cup
  {[state |-> "ok", data |-> catalog] :
     catalog \in {c \in Catalogs : c # <<>> /\ Coupled(c)}}

\* The last run of main, over any such snapshot.
InitCoupled ==
  /\ file \in CoupledFiles
  /\ pc = "start"
  /\ run = MaxRuns
  /\ FreshProcess

NextCoupled ==
  \/ Step0Fail
  \/ Step0Ok
  \/ Step1Fail
  \/ Step1
  \/ Step2Fetch
  \/ Step2Skip
  \/ EnrichSkip
  \/ EnrichHit
  \/ RunFetch429
  \/ RunFetchReturn
  \/ EnrichAfterFetch
  \/ EnrichMiss
  \/ EnrichReturn
  \/ WriteBackStep
  \/ Save
  \/ SaveFail

SpecCoupled == InitCoupled /\ [][NextCoupled]_vars

\* ------------------------------------------------------------ fetch session
\* The calls of step3_get_issue_price of one run, as the loop of
\* step3_enrich_with_issue_prices makes them (line 294), one after the
\* other in the same process.
SessionCall ==
  /\ pc \in {"session", "fetch_ret"}
  /\ calls < MaxCalls
  /\ calls' = calls + 1
  /\ \E b \in BondIds : FetchBegin(b)
  /\ pc' = "fetch"
  /\ UNCHANGED <<file, run, mainVars, enrichVars, writes>>

SessionFetch429 == Fetch429(Max429)

SessionFetchReturn == FetchReturn(Responses)

InitFetch ==
  /\ file = [state |-> "missing", data |-> <<>>]
  /\ pc = "session"
  /\ run = 1
  /\ FreshProcess

NextFetch ==
  \/ SessionCall
  \/ SessionFetch429
  \/ SessionFetchReturn

SpecFetch == InitFetch /\ [][NextFetch]_vars

\* ------------------------------------------------------------ merge and plan
\* Lines 441-446 alone: the worklist of the merged records.
PlanStep ==
  /\ pc = "step2"
  /\ records_to_process' = RecordsToProcess(json_data)
  /\ pc' = "planned"
  /\ UNCHANGED <<file, run, existing_data, incoming, json_data, merged,
                 isin_to_process, isin_bond_map, mapCalled, enrichVars,
                 fetchVars, calls, writes>>

MergeAny == \E table \in AnyTables : Step1Ok(table)

\* The incoming table is an equal copy of the catalog that was loaded.
MergeSelf ==
  /\ existing_data # <<>>
  /\ Step1Ok(existing_data)

\* main has loaded a catalog; any table may come.
InitMerge ==
  /\ file = [state |-> "ok", data |-> <<>>]
  /\ pc = "step1"
  /\ run = 1
  /\ existing_data \in Catalogs
  /\ incoming = <<>>
  /\ json_data = <<>>
  /\ merged = <<>>
  /\ isin_to_process = {}
  /\ isin_bond_map = EmptyMap
  /\ mapCalled = FALSE
  /\ records_to_process = <<>>
  /\ idx = 0
  /\ bondid_added = 0
  /\ price_found = 0
  /\ price_not_found = 0
  /\ unresolved = 0
  /\ fetchCalls = <<>>
  /\ bond_id = 0
  /\ backoff = 0
  /\ waits = <<>>
  /\ requests = 0
  /\ prior429 = 0
  /\ result = Null
  /\ lastResp = NoResp
  /\ calls = 0
  /\ writes = 0

NextMerge ==
  \/ MergeAny
  \/ MergeSelf
  \/ PlanStep

SpecMerge == InitMerge /\ [][NextMerge]_vars

\* ------------------------------------------------------------ properties
Range(seq) == {seq[n] : n \in DOMAIN seq}

\* Position j holds the record of its ISIN in the catalog: no later record
\* of the catalog carries the same ISIN.
HoldsIsin(catalog, j) ==
  \A k \in DOMAIN catalog : catalog[k].isin = catalog[j].isin => k <= j

\* bondid is missing or null, or issueprice is missing or null.
LacksStatic(record) ==
  \/ record.bondid \in {Absent, Null}
  \/ record.issueprice \in {Absent, Null}

\* C1: after merge_data, every incoming record whose ISIN occurs in the
\* previous catalog carries, for each static field that is present and
\* non-null in the previous record of that ISIN, exactly the previous value,
\* whatever the incoming record carried for the field (the previous record of
\* an ISIN is the one the index of merge_data holds).
C1_StaticPreserved ==
  pc \in {"step2", "planned"} =>
    /\ Len(json_data) = Len(incoming)
    /\ \A i \in DOMAIN incoming : \A j \in DOMAIN existing_data :
         \A field \in StaticFields :
           ( /\ existing_data[j].isin = incoming[i].isin
             /\ HoldsIsin(existing_data, j)
             /\ existing_data[j][field] \notin {Absent, Null} )
           => json_data[i][field] = existing_data[j][field]

\* A merge in which the incoming record carried another bond id and a null
\* issue price, and the previous values won.
C1_Witness ==
  /\ pc = "planned"
  /\ \E i \in DOMAIN incoming : \E j \in DOMAIN existing_data :
       /\ existing_data[j].isin = incoming[i].isin
       /\ HoldsIsin(existing_data, j)
       /\ existing_data[j].bondid = 7
       /\ incoming[i].bondid = 8
       /\ json_data[i].bondid = 7
       /\ existing_data[j].issueprice = 9875
       /\ incoming[i].issueprice = Null
       /\ json_data[i].issueprice = 9875

\* C2: a static field that is non-null in the catalog a run loaded (the one
\* the previous run persisted) has the same value in the catalog the run
\* persists, for every ISIN that is still in the incoming table.
C2_StaticPersistsAcrossRuns ==
  pc = "done" =>
    \A i \in DOMAIN file.data : \A j \in DOMAIN existing_data :
      \A field \in StaticFields :
        ( /\ existing_data[j].isin = file.data[i].isin
          /\ HoldsIsin(existing_data, j)
          /\ existing_data[j][field] \notin {Absent, Null} )
        => file.data[i][field] = existing_data[j][field]

C4_BackoffSequence ==
  \A n \in DOMAIN waits :
    /\ waits[n] = Min(60 * 2^(n - 1), 600)
    /\ waits[n] <= 600
    /\ n > 1 => waits[n - 1] <= waits[n]

\* Six 429 responses in a row: the cap has been reached and kept.
C4_Witness ==
  /\ Len(waits) = 6
  /\ waits[4] = 480
  /\ waits[5] = 600
  /\ waits[6] = 600

\* C5: step3_get_issue_price does not return on a 429: while every response
\* so far was a 429 the call is still requesting, each 429 having been
\* followed by a wait; it returns at the first other response, having made
\* one request more than it received 429 responses.
C5_RetryOn429 ==
  /\ pc = "fetch" =>
       /\ lastResp.kind \in {"none", "429"}
       /\ requests = Len(waits)
       /\ (lastResp.kind = "429") = (Len(waits) >= 1)
  /\ pc = "fetch_ret" =>
       /\ lastResp.kind \notin {"none", "429"}
       /\ requests = Len(waits) + 1

\* A call that returned after three 429 responses and four requests.
C5_Witness ==
  /\ pc = "fetch_ret"
  /\ Len(waits) = 3
  /\ requests = 4

\* The price texts float() rejects after strip and comma replacement.
UnparsableTexts ==
  { <<"n", "a">>, <<"1", ".", "0", "0", "0", ",", "5">>, <<>> }

\* A response that is neither a 429 nor a success.
IsTerminalFailure(resp) ==
  \/ resp.kind \in {"http_error", "transport_error", "no_tag"}
  \/ resp.kind = "tag" /\ resp.text \in UnparsableTexts

\* C6: on a non-429 HTTP error, a transport error, a document without the
\* issue-price tag or an unparsable price text, step3_get_issue_price
\* returns None at once: the failed request is its last one.
C6_TerminalFailures ==
  (pc = "fetch_ret" /\ IsTerminalFailure(lastResp)) =>
    /\ result = Null
    /\ requests = Len(waits) + 1

\* A call that got a 429 and then an unparsable text, and returned None.
C6_Witness ==
  /\ pc = "fetch_ret"
  /\ Len(waits) = 1
  /\ lastResp.kind = "tag"
  /\ lastResp.text = <<"n", "a">>
  /\ result = Null

\* C7 (as claimed): a record has its ISIN in isin_to_process and is in
\* records_to_process iff it lacks a static field, and the set and the list
\* select the same records.
C7_SameSelection ==
  pc = "planned" =>
    \A i \in DOMAIN json_data :
      /\ (json_data[i].isin \in isin_to_process
          /\ i \in Range(records_to_process)) = LacksStatic(json_data[i])
      /\ (json_data[i].isin \in isin_to_process)
         = (i \in Range(records_to_process))

\* C7 (amended): a record is in records_to_process iff it lacks a static
\* field, in the order of the catalog; isin_to_process is the set of the
\* ISINs of those records; the set and the list select the same records
\* when no ISIN occurs twice in the catalog.
C7_PlannerMinimality ==
  pc = "planned" =>
    /\ \A i \in DOMAIN json_data :
         (i \in Range(records_to_process)) = LacksStatic(json_data[i])
    /\ \A m, n \in DOMAIN records_to_process :
         m < n => records_to_process[m] < records_to_process[n]
    /\ isin_to_process
       = {json_data[i].isin : i \in Range(records_to_process)}
    /\ (\A i, j \in DOMAIN json_data :
          json_data[i].isin = json_data[j].isin => i = j)
       => \A i \in DOMAIN json_data :
            (json_data[i].isin \in isin_to_process)
            = (i \in Range(records_to_process))

\* A plan that selects a record with a bond id and no issue price and leaves
\* out a record with both fields valid.
C7_Witness ==
  /\ pc = "planned"
  /\ \E i, j \in DOMAIN json_data :
       /\ json_data[i].isin # json_data[j].isin
       /\ json_data[i].bondid = 7
       /\ json_data[i].issueprice = Null
       /\ i \in Range(records_to_process)
       /\ ~LacksStatic(json_data[j])
       /\ j \notin Range(records_to_process)
       /\ json_data[j].isin \notin isin_to_process

\* Every record of the merged catalog has a valid bondid and issueprice.
AllStaticValid(data) ==
  /\ data # <<>>
  /\ \A i \in DOMAIN data : ~LacksStatic(data[i])

\* C8: when every record of the merged catalog has both static fields
\* valid, the run does not fetch the mapping, never calls
\* step3_get_issue_price, does not enter the enrichment, and persists the
\* merged catalog unchanged.
C8_ZeroCostRerun ==
  AllStaticValid(merged) =>
    /\ ~mapCalled
    /\ \A i \in DOMAIN fetchCalls : fetchCalls[i] = 0
    /\ requests = 0
    /\ pc \in {"step2", "save", "done"}
    /\ json_data = merged
    /\ pc = "done" => file = [state |-> "ok", data |-> merged]

\* A second run that found both static fields in the snapshot and persisted
\* the merged catalog.
C8_Witness ==
  /\ pc = "done"
  /\ run = 2
  /\ AllStaticValid(merged)
  /\ existing_data # <<>>
  /\ file.data = merged

\* The worklist record at position k had no valid issue price and its ISIN
\* is not in the mapping.
IsMiss(k) ==
  /\ merged[k].issueprice \in {Absent, Null}
  /\ merged[k].isin \notin DOMAIN isin_bond_map

\* C9 (as claimed): after the enrichment, every worklist record without a
\* valid issue price whose ISIN is not in the mapping, an empty mapping
\* included, carries bondid = null and issueprice = null, and no call of
\* step3_get_issue_price was made for it.
C9_MissSetsNull ==
  pc = "enriched" =>
    \A k \in Range(records_to_process) :
      IsMiss(k) => /\ json_data[k].bondid = Null
                   /\ json_data[k].issueprice = Null
                   /\ fetchCalls[k] = 0

\* C9 (amended): the same for every mapping with at least one entry; with
\* an empty mapping the enrichment returns the records as they were, without
\* any call.
C9_MissSetsNullUnlessEmptyMap ==
  pc = "enriched" =>
    IF DOMAIN isin_bond_map = {}
    THEN /\ json_data = merged
         /\ \A i \in DOMAIN fetchCalls : fetchCalls[i] = 0
    ELSE \A k \in Range(records_to_process) :
           IsMiss(k) => /\ json_data[k].bondid = Null
                        /\ json_data[k].issueprice = Null
                        /\ fetchCalls[k] = 0

\* An enrichment with a non-empty mapping that lacks the ISIN of a worklist
\* record.
C9_Witness ==
  /\ pc = "enriched"
  /\ DOMAIN isin_bond_map # {}
  /\ \E k \in Range(records_to_process) :
       /\ IsMiss(k)
       /\ merged[k].bondid = Absent
       /\ json_data[k].bondid = Null
       /\ json_data[k].issueprice = Null

\* C10: when the call made for a worklist record whose ISIN is in the
\* mapping returns, the record carries the mapped bond id and exactly one
\* call was made for it; a returned number, zero included, becomes the
\* record's issueprice and counts as a price found; None leaves issueprice
\* null and counts as a price not found.
C10_HitSetsPrice ==
  [][(pc = "fetch_ret" /\ pc' = "enrich") =>
       /\ json_data'[records_to_process[idx]].bondid
          = isin_bond_map[merged[records_to_process[idx]].isin]
       /\ fetchCalls[records_to_process[idx]] = 1
       /\ result # Null =>
            /\ json_data'[records_to_process[idx]].issueprice = result
            /\ price_found' = price_found + 1
            /\ price_not_found' = price_not_found
       /\ result = Null =>
            /\ json_data'[records_to_process[idx]].issueprice = Null
            /\ price_not_found' = price_not_found + 1
            /\ price_found' = price_found]_vars

\* The ISINs of a list of records.
IsinsOf(data) == {data[i].isin : i \in DOMAIN data}

\* The number of records of the list that carry the ISIN.
Occurrences(data, isin) ==
  Cardinality({i \in DOMAIN data : data[i].isin = isin})

\* C11 (as claimed): the output of merge_data has the incoming records in
\* incoming order, every ISIN of the incoming list is in the output exactly
\* once, and an ISIN that is only in the previous catalog is not in the
\* output.
C11_MembershipOnce ==
  pc \in {"step2", "planned"} =>
    /\ Len(json_data) = Len(incoming)
    /\ \A i \in DOMAIN incoming : json_data[i].isin = incoming[i].isin
    /\ \A isin \in IsinsOf(incoming) : Occurrences(json_data, isin) = 1
    /\ \A isin \in IsinsOf(existing_data) \ IsinsOf(incoming) :
         Occurrences(json_data, isin) = 0

\* C11 (amended): the output has one record per incoming record, in incoming
\* order and with its ISIN; an ISIN is in the output as many times as in the
\* incoming list (once when the incoming list carries it once), and an ISIN
\* that is only in the previous catalog is not in the output.
C11_MembershipAndOrder ==
  pc \in {"step2", "planned"} =>
    /\ Len(json_data) = Len(incoming)
    /\ \A i \in DOMAIN incoming : json_data[i].isin = incoming[i].isin
    /\ \A isin \in Isins :
         Occurrences(json_data, isin) = Occurrences(incoming, isin)
    /\ \A isin \in IsinsOf(existing_data) \ IsinsOf(incoming) :
         Occurrences(json_data, isin) = 0

\* A merge whose previous catalog holds an ISIN the incoming list has not,
\* and whose incoming list carries its other ISIN once.
C11_Witness ==
  /\ pc = "planned"
  /\ Len(existing_data) = 2
  /\ existing_data[1].isin = "B"
  /\ existing_data[2].isin = "A"
  /\ Len(incoming) = 1
  /\ incoming[1].isin = "A"
  /\ Len(json_data) = 1
  /\ json_data[1].isin = "A"

\* C12: in the output of merge_data every field other than bondid and
\* issueprice has exactly the value of the incoming record at that position,
\* never the value of the previous record of the same ISIN, and a field that
\* only the previous record has is not in the output record.
C12_VolatileFresh ==
  pc \in {"step2", "planned"} =>
    /\ Len(json_data) = Len(incoming)
    /\ \A i \in DOMAIN incoming :
         \A field \in AllFields \ StaticFields :
           json_data[i][field] = incoming[i][field]

\* A merge with a previous record of the same ISIN: one incoming record
\* carries a new value of the volatile field, and in another merge the
\* incoming record lacks the field the previous record has.
C12_Witness ==
  /\ pc = "planned"
  /\ \E i \in DOMAIN incoming : \E j \in DOMAIN existing_data :
       /\ existing_data[j].isin = incoming[i].isin
       /\ HoldsIsin(existing_data, j)
       /\ existing_data[j].price = 1
       /\ existing_data[j].bondid = 7
       /\ incoming[i].price = Absent
       /\ json_data[i].price = Absent
       /\ json_data[i].bondid = 7

\* The merge is done and the enrichment of the whole worklist is over.
EnrichmentOver ==
  /\ merged # <<>>
  /\ Len(json_data) = Len(merged)
  /\ records_to_process = RecordsToProcess(merged)
  /\ \/ records_to_process = <<>>
     \/ DOMAIN isin_bond_map = {}
     \/ idx > Len(records_to_process)

\* C13: a run opens the snapshot for writing at most once, and only when
\* the merge and the enrichment of the whole catalog are over; a run that
\* aborts in step 0 or step 1 (download failure, conversion failure or empty
\* data, no ISIN column) exits with status 1 without having written the
\* snapshot; a failed write exits with status 1; a run that ends with status
\* 0 has written the catalog it built.
C13_SinglePersistence ==
  /\ [](/\ writes <= 1
        /\ pc \notin {"done", "exit1"} => writes = 0
        /\ pc = "done" => /\ writes = 1
                          /\ file = [state |-> "ok", data |-> json_data])
  /\ [][/\ (file' # file \/ writes' > writes) =>
             /\ pc = "save"
             /\ EnrichmentOver
             /\ pc' \in {"done", "exit1"}
        /\ (pc \in {"start", "step1"} /\ pc' \notin {"step1", "step2"}) =>
             /\ pc' = "exit1"
             /\ writes' = 0
             /\ file' = file
        /\ (pc = "save" /\ pc' # "done") => pc' = "exit1"]_vars

\* A second run that aborted without writing: the snapshot of the first run
\* is still there.
C13_Witness ==
  /\ pc = "exit1"
  /\ run = 2
  /\ writes = 0
  /\ file.state = "ok"
  /\ file.data # <<>>

\* C14: at every point of every run, a run whose write fails included, the
\* snapshot file holds a complete catalog (the previous one or the new one),
\* never an empty or partial one; after a run that ended with status 0 it
\* holds the new catalog.
C14_AtomicReplacement ==
  /\ file.state # "corrupt"
  /\ pc = "done" => file = [state |-> "ok", data |-> json_data]

\* merge_data was given the loaded catalog and an equal copy of it.
SelfMerged ==
  /\ pc \in {"step2", "planned"}
  /\ existing_data # <<>>
  /\ incoming = existing_data

\* No ISIN occurs in two records of the list.
NoDuplicateIsin(data) ==
  \A i, j \in DOMAIN data : data[i].isin = data[j].isin => i = j

\* C15 (as claimed): for every catalog c, merge_data(c, c') with c' an
\* equal copy of c returns a catalog equal to c.
C15_MergeIdempotent ==
  SelfMerged => json_data = existing_data

\* C15 (amended): merge_data(c, c') with c' an equal copy of c returns a
\* catalog equal to c, null and absent static fields included, for every
\* catalog c in which no ISIN occurs twice; when an ISIN occurs twice, every
\* record of that ISIN takes the valid static fields of the last record
\* with that ISIN and keeps all its other fields.
C15_MergeIdempotentUniqueKeys ==
  SelfMerged =>
    /\ NoDuplicateIsin(existing_data) => json_data = existing_data
    /\ Len(json_data) = Len(existing_data)
    /\ \A i, j \in DOMAIN existing_data :
         ( /\ existing_data[j].isin = existing_data[i].isin
           /\ HoldsIsin(existing_data, j) ) =>
           \A field \in AllFields :
             json_data[i][field]
             = IF field \in StaticFields /\ IsValid(existing_data[j], field)
               THEN existing_data[j][field]
               ELSE existing_data[i][field]

\* A catalog of two ISINs merged with its copy: one record with an absent
\* bondid and a null issueprice, the other with both fields valid.
C15_Witness ==
  /\ SelfMerged
  /\ pc = "planned"
  /\ NoDuplicateIsin(existing_data)
  /\ Len(existing_data) = 2
  /\ existing_data[1].bondid = Absent
  /\ existing_data[1].issueprice = Null
  /\ existing_data[2].bondid = 7
  /\ existing_data[2].issueprice = 9875
  /\ json_data = existing_data

\* The catalog the run loaded holds the ISIN of the merged record at k with
\* a valid issueprice.
PersistedPrice(k) ==
  \E j \in DOMAIN existing_data :
    /\ existing_data[j].isin = merged[k].isin
    /\ IsValid(existing_data[j], "issueprice")

\* The catalog the run loaded holds the ISIN of the merged record at k with
\* a null issueprice.
PersistedNull(k) ==
  \E j \in DOMAIN existing_data :
    /\ existing_data[j].isin = merged[k].isin
    /\ existing_data[j].issueprice = Null

\* The worklist of the run has been built.
Planned ==
  pc \in {"enrich", "fetch", "fetch_ret", "enriched", "save", "done"}

\* No call of step3_get_issue_price is made in the run for a record whose
\* ISIN has a valid issueprice in the loaded catalog.
NoRefetch ==
  \A k \in DOMAIN merged : PersistedPrice(k) => fetchCalls[k] = 0

\* C16 (as claimed): in every run no call of step3_get_issue_price is made
\* for a record whose ISIN has a non-null issueprice in the catalog the
\* previous run persisted, and every record whose ISIN was persisted with a
\* null issueprice is selected again.
C16_NoRefetch ==
  /\ NoRefetch
  /\ \A k \in DOMAIN merged :
       PersistedNull(k) =>
         /\ merged[k].isin \in isin_to_process
         /\ Planned => k \in Range(records_to_process)

\* C16 (amended): the same, except that a record whose ISIN was persisted
\* with a null issueprice is selected again when its incoming record
\* carries no non-null issueprice of its own; when it carries one, the
\* record is selected only if its bondid is missing or null.
C16_NoRefetchNullRetried ==
  /\ NoRefetch
  /\ \A k \in DOMAIN merged :
       PersistedNull(k) =>
         /\ ~IsValid(incoming[k], "issueprice") =>
              /\ merged[k].isin \in isin_to_process
              /\ Planned => k \in Range(records_to_process)
         /\ (IsValid(incoming[k], "issueprice") /\ Planned) =>
              (k \in Range(records_to_process))
              = (merged[k].bondid \in {Absent, Null})

\* A second run that ended: a record in the worklist for its missing bondid
\* whose issueprice was persisted, with no call made for it, and a record
\* whose issueprice was persisted as null, selected again.
C16_Witness ==
  /\ pc = "done"
  /\ run = 2
  /\ \E k \in Range(records_to_process) :
       /\ PersistedPrice(k)
       /\ merged[k].bondid \in {Absent, Null}
       /\ fetchCalls[k] = 0
  /\ \E k \in Range(records_to_process) :
       /\ PersistedNull(k)
       /\ ~PersistedPrice(k)

\* C17: the enrichment followed by the write-back of main changes only the
\* bondid and issueprice of worklist records: every other field of every
\* record, and every field of every record outside the worklist, has the
\* value it had after the merge, also when several records of the list
\* carry the same ISIN.
C17_EnrichmentFrame ==
  Planned =>
    /\ Len(json_data) = Len(merged)
    /\ \A k \in DOMAIN merged :
         /\ \A field \in AllFields \ StaticFields :
              json_data[k][field] = merged[k][field]
         /\ k \notin Range(records_to_process) => json_data[k] = merged[k]

\* The loop of step3_enrich_with_issue_prices has run over the whole
\* worklist (lines 278-306) and its report is due (lines 311-316).
PassOver ==
  /\ pc = "enriched"
  /\ idx > Len(records_to_process)

\* C18: at the end of an enrichment pass, bondid_added plus the number of
\* records that took the branch of the missing mapping is the number of
\* worklist records, and price_found + price_not_found = bondid_added.
C18_ExactStatistics ==
  PassOver =>
    /\ bondid_added + unresolved = Len(records_to_process)
    /\ price_found + price_not_found = bondid_added

\* A pass over two records: one not in the mapping, one whose call returned
\* no price.
C18_Witness ==
  /\ PassOver
  /\ Len(records_to_process) = 2
  /\ unresolved = 1
  /\ bondid_added = 1
  /\ price_not_found = 1

\* No record of the table carries a bondid or an issueprice of its own.
NoStaticFields(table) ==
  \A i \in DOMAIN table :
    /\ table[i].bondid = Absent
    /\ table[i].issueprice = Absent

\* C19: a run that loaded no catalog or a catalog in which every record
\* with a non-null issueprice has a non-null bondid, and whose incoming
\* records carry no bondid and no issueprice of their own, persists a
\* catalog with the same property, and the records have it all through the
\* run.  By induction the property holds of every catalog a sequence of
\* such runs persists.
C19_StaticFieldsCoupled ==
  (Coupled(existing_data) /\ NoStaticFields(incoming)) =>
    /\ Coupled(json_data)
    /\ pc = "done" => /\ file.state = "ok"
                      /\ Coupled(file.data)

\* A run over a coupled catalog and a table without static fields that
\* persisted a record with the issueprice of the catalog and a record with
\* a bondid and an issueprice it fetched.
C19_Witness ==
  /\ pc = "done"
  /\ existing_data # <<>>
  /\ NoStaticFields(incoming)
  /\ Len(file.data) = 2
  /\ \E i, k \in DOMAIN file.data :
       /\ i # k
       /\ fetchCalls[i] = 0
       /\ merged[i].issueprice = 9875
       /\ file.data[i].bondid = 7
       /\ file.data[i].issueprice = 9875
       /\ fetchCalls[k] = 1
       /\ file.data[k].bondid = 8
       /\ file.data[k].issueprice = 10000

====
